---- MODULE Spec2Model ----
(***************************************************************************)
(* Model of src/yolo_tracker_save_hqsync.py: the capture loop that drains  *)
(* the frame/track queues once per tick, saves crops, dispatches           *)
(* full-frame / overlay threads, keeps the lost_frames counters, and shuts *)
(* down through the finally block (scheduler, threads, record_log).        *)
(*                                                                         *)
(* The main thread is one process whose position is pc.  Worker threads,   *)
(* the scheduler's jobs, the OAK device feeding the queues, Ctrl+C and the *)
(* operating system's shutdown are separate actions that interleave with   *)
(* it.  Time is counted in seconds from start_time.                        *)
(***************************************************************************)
EXTENDS Integers, Sequences, FiniteSets

\* ---------------------------------------------------------------- constants
MIN_DISKSPACE == 100
CAPTURE_FREQ == 1
LOST_FRAMES_TILL_REMOVAL == 3
FULL_FREQ == 60
LOG_FREQ == 30
\* Default of --min_rec_time, in minutes.
DefaultMinRecTime == 2

\* ------------------------------------------------------------------- bounds
\* REC_TIME is args.min_rec_time * 60 in the source; the model runs the same
\* loop for a recording of ShortRecTime seconds.
ShortRecTime == 4
\* Longest time the work of one tick takes before time.sleep, in seconds.
MaxWork == 1
\* Tracking IDs are 1..MaxId; one sample holds at most MaxTracks tracklets.
MaxId == 2
MaxTracks == 2
\* At most MaxThreads persistence threads are in the threads list at a time.
MaxThreads == 3
\* At most MaxQueue messages wait in each output queue.
MaxQueue == 1
\* Ticks the frequency scenario is observed for.
ScenarioTicks == 65

TrackIds == 1..MaxId
\* Tracklet statuses: "LOST" stands for every status other than "TRACKED".
Statuses == {"TRACKED", "LOST"}
\* Readings of psutil.disk_usage("/").free in MB around the floor.
DiskReadings == {MIN_DISKSPACE - 1, MIN_DISKSPACE, MIN_DISKSPACE + 1}
\* Content of last_rec_id.txt before the run; 0 stands for a missing file.
LastRecIds == {0}
FullModes == {"none", "det", "freq"}

VARIABLES
    pc,             \* position of the main thread
    args,           \* parsed command line: full, overlay, logs
    REC_TIME,       \* recording time in seconds
    disk_free,      \* last free-disk reading (MB)
    halting,        \* "sudo shutdown -h now" was issued and returned
    rec_id_file,    \* content of last_rec_id.txt
    rec_id,         \* this run's recording ID, 0 before it is assigned
    log_rows,       \* number of record_log calls
    scheduler,      \* "unset", "none", "running" or "stopped"
    executing,      \* scheduled jobs whose invocation is running
    q_frame,        \* messages waiting in the "frame" output queue
    q_track,        \* messages waiting in the "track" output queue
    now,            \* time.monotonic() - start_time
    tracks,         \* tracklets of the sample drained in this tick
    i,              \* index of the tracklet the for loop is at
    lost_frames,    \* the defaultdict, in insertion order: <<[id, n], ...>>
    threads,        \* the threads list: <<[kind, running, fresh], ...>>
    orphans,        \* running threads that are not in the threads list
    exc,            \* exception that left the try block: "none", "error", "interrupt"
    script,         \* ID lists the source still has to deliver (scripted runs)
    scripted,       \* whether the source follows a script
    timed,          \* whether the scheduler's timers run on the clock of now
                    \* and every tick lasts exactly CAPTURE_FREQ seconds
    next_run,       \* next run time of each scheduled job (timed runs)
    job_args,       \* frame argument of job "full": "None" or "latest", the
                    \* frame of the most recent drained sample
    drained,        \* whether the tick in progress drained a sample
    \* history of the run, read only by the properties
    watch,          \* the tracking ID whose history is recorded
    sent,           \* send_track_data(watch) calls since watch was last reported
    absent_ticks,   \* drained ticks in a row without watch, -1: never reported
    absent_updates, \* lifecycle updates in a row without watch
    evals,          \* evaluations of the while condition
    tickno,         \* samples drained so far in a scripted run
    lf_before,      \* lost_frames as it was when the tick drained its sample
    full_saves,     \* invocations of job "full" so far (timed runs)
    saved_frame     \* frame argument of the latest invocation of job "full"

vars == <<pc, args, REC_TIME, disk_free, halting, rec_id_file, rec_id,
          log_rows, scheduler, executing, q_frame, q_track, now, tracks, i,
          lost_frames, threads, orphans, exc, script, scripted, watch, sent,
          absent_ticks, absent_updates, evals, tickno, drained, lf_before,
          timed, next_run, job_args, full_saves, saved_frame>>

\* --------------------------------------------------------------- helpers
Cap(n, m) == IF n > m THEN m ELSE n

Tracklet == [id : TrackIds, status : Statuses]

\* Lists of at most MaxTracks tracklets with pairwise different IDs
\* (the tracker assigns UNIQUE_ID).
TrackLists ==
    {s \in UNION {[1..n -> Tracklet] : n \in 0..MaxTracks} :
        \A a, b \in DOMAIN s : a # b => s[a].id # s[b].id}

IdList(s) == [k \in DOMAIN s |-> s[k].id]

\* current_track_ids = [tracklet.id for tracklet in tracks]
CurrentTrackIds(s) == {s[k].id : k \in DOMAIN s}

Keys(lf) == {lf[k].id : k \in DOMAIN lf}

\* lost_frames[id] for a key of the dict.
Counter(lf, id) == LET k == CHOOSE k \in DOMAIN lf : lf[k].id = id IN lf[k].n

\* Jobs added to the scheduler for the given arguments.
Jobs(a) ==
    (IF a.logs THEN {"log"} ELSE {}) \cup (IF a.full = "freq" THEN {"full"} ELSE {})

\* seconds= of the interval trigger of job j.
Interval(j) == IF j = "log" THEN LOG_FREQ ELSE FULL_FREQ

\* REC_TIME = args.min_rec_time * 60
RecTime(min) == min * 60

Terminal == {"done", "crashed", "killed"}
LoopPcs == {"while", "poll", "track", "lifecycle", "endtick"}
SetupPcs == {"start", "session", "config", "device"}

\* ------------------------------------------------------- lifecycle update
\* Lines 341-352 on the dict lf with the tick's IDs cur, from position p on:
\* a key in cur is reset to 0; any other key is incremented and, at the
\* threshold, reported to send_track_data and deleted.  Deleting while the
\* for loop iterates over lost_frames.keys() makes the iterator's next step
\* raise RuntimeError, so the walk ends there with raised = TRUE.
RECURSIVE Walk(_, _, _)
Walk(lf, p, cur) ==
    IF p > Len(lf)
    THEN [lf |-> lf, sent |-> {}, raised |-> FALSE]
    ELSE IF lf[p].id \in cur
    THEN Walk([lf EXCEPT ![p].n = 0], p + 1, cur)
    ELSE IF lf[p].n + 1 >= LOST_FRAMES_TILL_REMOVAL
    THEN [lf |-> SubSeq(lf, 1, p - 1) \o SubSeq(lf, p + 1, Len(lf)),
          sent |-> {lf[p].id}, raised |-> TRUE]
    ELSE Walk([lf EXCEPT ![p].n = lf[p].n + 1], p + 1, cur)

\* Mutant: every ID missing from the tick's list is finalized at once, with no
\* counter and no threshold.
LifecycleUpdateEager(lf, cur) ==
    [lf |-> lf, sent |-> TrackIds \ cur, raised |-> FALSE]

\* The update of lines 340-352 walks the keys the dict holds; cur is
\* current_track_ids.
LifecycleUpdate(lf, cur) == Walk(lf, 1, cur)

\* ---------------------------------------------------------------- threads
\* threading.Thread(...).start() followed by threads.append(...), once per
\* kind in kinds.
RECURSIVE StartThreads(_, _)
StartThreads(ths, kinds) ==
    IF kinds = <<>>
    THEN ths
    ELSE StartThreads(Append(ths, [kind |-> Head(kinds), running |-> TRUE,
                                   fresh |-> TRUE]),
                      Tail(kinds))

\* Mutant: the full-frame thread is started for every TRACKED tracklet.
ThreadKindsEveryTracklet(a, tr, k) ==
    (IF a.full = "det" THEN <<"full">> ELSE <<>>)
    \o (IF a.overlay THEN <<"overlay">> ELSE <<>>)

\* Threads the tracklet at index k starts once its crop is saved.
ThreadKinds(a, tr, k) ==
    (IF a.full = "det" /\ k = Len(tr) THEN <<"full">> ELSE <<>>)
    \o (IF a.overlay THEN <<"overlay">> ELSE <<>>)

\* Threads the tracklets of sample s from index k on start.
RECURSIVE ThreadDemand(_, _, _)
ThreadDemand(a, s, k) ==
    IF k > Len(s)
    THEN 0
    ELSE (IF s[k].status = "TRACKED" THEN Len(ThreadKinds(a, s, k)) ELSE 0)
         + ThreadDemand(a, s, k + 1)

\* The frame buffer a thread was handed: frame_hq for save_full_frame (line
\* 327), for save_overlay_frame the frame_hq_copy made once per tick (lines
\* 300, 334).
Buffer(t) == IF t.kind = "overlay" THEN "frame_hq_copy" ELSE "frame_hq"

\* Whether the thread draws on its buffer (overlays: bbox + info).
Draws(t) == t.kind = "overlay"

\* The threads of the list once the tick that started them is over.
Stale(ths) == [k \in DOMAIN ths |-> [ths[k] EXCEPT !.fresh = FALSE]]

\* Mutant: the pruning test is inverted.
IsFinished(t) == ~t.running

\* thread.is_alive()
IsAlive(t) == t.running

\* threads = [thread for thread in threads if thread.is_alive()]
\* kept: the new list; dropped: the running threads it no longer holds.
Prune(ths) ==
    LET Dropped(t) == ~IsAlive(t) /\ t.running
    IN  [kept |-> SelectSeq(ths, IsAlive),
         dropped |-> Len(SelectSeq(ths, Dropped))]

\* thread.join() on thread t returns once t has finished.
JoinReturns(t) == ~t.running

\* Mutant: scheduler.shutdown(wait=False).
SchedulerNoWait == TRUE

\* scheduler.shutdown() waits until no job invocation is executing.
SchedulerIdle == executing = {}

\* ----------------------------------------------------------- stop condition
\* Mutant: the loop runs one more tick when the time is exactly up.
TimeLeftInclusive == now <= REC_TIME

\* time.monotonic() < start_time + REC_TIME
TimeLeft == now < REC_TIME

\* disk_free > MIN_DISKSPACE
DiskLeft == disk_free > MIN_DISKSPACE

\* Mutant: the loop does not sleep and its work takes no time.
NoSleep(t, w) == t

\* The time at the end of a tick that began at t: its work took w seconds
\* and time.sleep(CAPTURE_FREQ) the rest.
AfterSleep(t, w) == t + w + CAPTURE_FREQ

\* ------------------------------------------------------------------- Init
\* The state at process start, before line 139, for any first free-disk
\* reading, but for lost_frames.
InitRest ==
    /\ pc = "start"
    /\ disk_free \in DiskReadings
    /\ halting = FALSE
    /\ rec_id_file \in LastRecIds
    /\ rec_id = 0
    /\ log_rows = 0
    /\ scheduler = "unset"
    /\ executing = {}
    /\ q_frame = 0
    /\ q_track = 0
    /\ now = 0
    /\ tracks = <<>>
    /\ i = 0
    /\ threads = <<>>
    /\ orphans = 0
    /\ exc = "none"
    /\ sent = 0
    /\ absent_ticks = -1
    /\ absent_updates = 0
    /\ evals = 0
    /\ tickno = 0
    /\ next_run = [j \in {"log", "full"} |-> 0]
    /\ job_args = "None"
    /\ drained = FALSE
    /\ lf_before = <<>>
    /\ full_saves = 0
    /\ saved_frame = "unset"

\* lost_frames is the empty defaultdict of line 129.
InitProgram ==
    /\ InitRest
    /\ lost_frames = <<>>

\* Every combination of -full, -overlay and -log.
AllArgs == [full : FullModes, overlay : BOOLEAN, logs : BOOLEAN]

\* Arguments with which persistence threads and a scheduled job exist; the
\* lifecycle update of lines 340-352 reads no argument.
TrackArgs == [full |-> "freq", overlay |-> TRUE, logs |-> FALSE]

\* Any arguments, any source; no tracking ID is watched (watch is no ID).
Init ==
    /\ InitProgram
    /\ args \in AllArgs
    /\ REC_TIME = ShortRecTime
    /\ script = <<>>
    /\ scripted = FALSE
    /\ timed = FALSE
    /\ watch = 0

\* Any source; the history of any one tracking ID is recorded.
InitTracks ==
    /\ InitProgram
    /\ args = TrackArgs
    /\ REC_TIME = ShortRecTime
    /\ script = <<>>
    /\ scripted = FALSE
    /\ timed = FALSE
    /\ watch \in TrackIds

\* The five ticks {1,2}, {1}, {1}, {1}, {2} of the spec's scenario.
Scenario == <<(<<1, 2>>), (<<1>>), (<<1>>), (<<1>>), (<<2>>)>>

\* The source delivers the scenario, the recording lasts long enough for its
\* ticks, and the history follows track 2.
InitScenario ==
    /\ InitProgram
    /\ args = TrackArgs
    /\ REC_TIME = Len(Scenario) * CAPTURE_FREQ
    /\ script = Scenario
    /\ scripted = TRUE
    /\ timed = FALSE
    /\ watch = Scenario[Len(Scenario)][1]

\* Dicts lost_frames can be: pairwise different IDs, counters below the
\* threshold (an entry is deleted when its counter reaches it).
Dicts ==
    {d \in UNION {[1..n -> [id : TrackIds,
                            n : 0..(LOST_FRAMES_TILL_REMOVAL - 1)]] :
                     n \in 0..MaxId} :
        \A a, b \in DOMAIN d : a # b => d[a].id # d[b].id}

\* The loop started on any dict of counters.  No run from InitProgram puts a
\* key into lost_frames, so the code that updates existing counters is
\* exercised from here.
InitCounters ==
    /\ InitRest
    /\ lost_frames \in Dicts
    /\ args = TrackArgs
    /\ REC_TIME = ShortRecTime
    /\ script = <<>>
    /\ scripted = FALSE
    /\ timed = FALSE
    /\ watch = 0

\* Any source, -full freq and -overlay: a scheduled job and threads exist.
InitLive ==
    /\ InitProgram
    /\ args = TrackArgs
    /\ REC_TIME = ShortRecTime
    /\ script = <<>>
    /\ scripted = FALSE
    /\ timed = FALSE
    /\ watch = 0

\* Samples of the frequency scenario: one tracklet in the first sample, none
\* afterwards; the source may deliver them at any tick or never.
FreqScript ==
    [k \in 1..RecTime(DefaultMinRecTime) |-> IF k = 1 THEN <<1>> ELSE <<>>]

\* -full freq with the default recording time, timers on the clock of now.
InitFreq ==
    /\ InitProgram
    /\ args = TrackArgs
    /\ REC_TIME = RecTime(DefaultMinRecTime)
    /\ script = FreqScript
    /\ scripted = TRUE
    /\ timed = TRUE
    /\ watch = 0

\* ------------------------------------------------------------------ setup
\* Lines 139-142, disk space below the floor: "sudo shutdown -h now" is run.
\* The script has no exit of its own: when the command returns it goes on,
\* until the operating system ends it (OsKill); check=True raises if the
\* command fails.
StartupLowDisk ==
    /\ pc = "start"
    /\ disk_free < MIN_DISKSPACE
    /\ \/ pc' = "session" /\ halting' = TRUE /\ exc' = exc
       \/ pc' = "crashed" /\ halting' = halting /\ exc' = "error"
    /\ UNCHANGED <<args, REC_TIME, disk_free, rec_id_file, rec_id, log_rows,
                   scheduler, executing, q_frame, q_track, now, tracks, i,
                   lost_frames, threads, orphans, script, scripted, watch, sent,
                   absent_ticks, absent_updates, evals, tickno, drained,
                   lf_before, timed, next_run, job_args, full_saves, saved_frame>>

\* Lines 139-140, disk space at or above the floor.
StartupDiskOk ==
    /\ pc = "start"
    /\ ~(disk_free < MIN_DISKSPACE)
    /\ pc' = "session"
    /\ UNCHANGED <<args, REC_TIME, disk_free, halting, rec_id_file, rec_id,
                   log_rows, scheduler, executing, q_frame, q_track, now, tracks,
                   i, lost_frames, threads, orphans, exc, script, scripted,
                   watch, sent, absent_ticks, absent_updates, evals, tickno,
                   drained, lf_before, timed, next_run, job_args, full_saves,
                   saved_frame>>

\* Lines 144-157: the recording ID is read, incremented and written back, and
\* the output directory of the session is created.
OpenSession ==
    /\ pc = "session"
    /\ rec_id' = rec_id_file + 1
    /\ rec_id_file' = rec_id_file + 1
    /\ pc' = "config"
    /\ UNCHANGED <<args, REC_TIME, disk_free, halting, log_rows, scheduler,
                   executing, q_frame, q_track, now, tracks, i, lost_frames,
                   threads, orphans, exc, script, scripted, watch, sent,
                   absent_ticks, absent_updates, evals, tickno, drained,
                   lf_before, timed, next_run, job_args, full_saves, saved_frame>>

\* Lines 160-175: the model config JSON is read; a missing or unreadable file
\* raises.
LoadConfig ==
    /\ pc = "config"
    /\ \/ pc' = "device" /\ exc' = exc
       \/ pc' = "crashed" /\ exc' = "error"
    /\ UNCHANGED <<args, REC_TIME, disk_free, halting, rec_id_file, rec_id,
                   log_rows, scheduler, executing, q_frame, q_track, now, tracks,
                   i, lost_frames, threads, orphans, script, scripted, watch,
                   sent, absent_ticks, absent_updates, evals, tickno, drained,
                   lf_before, timed, next_run, job_args, full_saves, saved_frame>>

\* Line 244, dai.Device(...) raises: no device, or the pipeline cannot start.
DeviceFails ==
    /\ pc = "device"
    /\ pc' = "crashed"
    /\ exc' = "error"
    /\ UNCHANGED <<args, REC_TIME, disk_free, halting, rec_id_file, rec_id,
                   log_rows, scheduler, executing, q_frame, q_track, now, tracks,
                   i, lost_frames, threads, orphans, script, scripted, watch,
                   sent, absent_ticks, absent_updates, evals, tickno, drained,
                   lf_before, timed, next_run, job_args, full_saves, saved_frame>>

\* Lines 244-283: the device is opened, the scheduler is created and started
\* when a job is added, the queues are created, start_time is taken and the
\* threads list is emptied.  An interval job first runs one interval after
\* the scheduler's start, and job "full" is added with the frame None.
ConnectDevice ==
    /\ pc = "device"
    /\ scheduler' = IF Jobs(args) # {} THEN "running" ELSE "none"
    /\ next_run' = IF timed THEN [j \in DOMAIN next_run |-> Interval(j)]
                  ELSE next_run
    /\ job_args' = "None"
    /\ now' = 0
    /\ threads' = <<>>
    /\ pc' = "while"
    /\ UNCHANGED <<args, REC_TIME, disk_free, halting, rec_id_file, rec_id,
                   log_rows, executing, q_frame, q_track, tracks, i, lost_frames,
                   orphans, exc, script, scripted, watch, sent, absent_ticks,
                   absent_updates, evals, tickno, drained, lf_before, timed,
                   full_saves, saved_frame>>

\* ------------------------------------------------------------ the source
\* The OAK device puts a message into the "frame" queue.  The queues are read
\* only by the poll of line 290, so arrivals are taken just before a poll.
SourceFrame ==
    /\ pc = "poll"
    /\ q_frame < MaxQueue
    /\ q_frame' = q_frame + 1
    /\ UNCHANGED <<pc, args, REC_TIME, disk_free, halting, rec_id_file, rec_id,
                   log_rows, scheduler, executing, q_track, now, tracks, i,
                   lost_frames, threads, orphans, exc, script, scripted, watch,
                   sent, absent_ticks, absent_updates, evals, tickno, drained,
                   lf_before, timed, next_run, job_args, full_saves, saved_frame>>

\* The OAK device puts a message into the "track" queue; a scripted source
\* delivers no more samples than its script holds.
SourceTrack ==
    /\ pc = "poll"
    /\ q_track < MaxQueue
    /\ scripted => q_track < Len(script)
    /\ q_track' = q_track + 1
    /\ UNCHANGED <<pc, args, REC_TIME, disk_free, halting, rec_id_file, rec_id,
                   log_rows, scheduler, executing, q_frame, now, tracks, i,
                   lost_frames, threads, orphans, exc, script, scripted, watch,
                   sent, absent_ticks, absent_updates, evals, tickno, drained,
                   lf_before, timed, next_run, job_args, full_saves, saved_frame>>

\* Samples the next q_track.get() can return.
Samples ==
    IF scripted THEN {s \in TrackLists : IdList(s) = Head(script)} ELSE TrackLists

\* --------------------------------------------------------------- the loop
\* Line 288: the while condition is evaluated; when it is false the loop
\* ends, line 364 logs it and the finally block is entered.  The count of
\* evaluations stops at REC_TIME + 2, more than a loop whose ticks last at
\* least a second can make.
WhileCond ==
    /\ pc = "while"
    /\ evals' = Cap(evals + 1, REC_TIME + 2)
    /\ pc' = IF TimeLeft /\ DiskLeft THEN "poll" ELSE "finally"
    /\ UNCHANGED <<args, REC_TIME, disk_free, halting, rec_id_file, rec_id,
                   log_rows, scheduler, executing, q_frame, q_track, now, tracks,
                   i, lost_frames, threads, orphans, exc, script, scripted,
                   watch, sent, absent_ticks, absent_updates, tickno, drained,
                   lf_before, timed, next_run, job_args, full_saves, saved_frame>>

\* Mutant: the poll asks for data in one of the queues only.
HasDataEither == q_frame > 0 \/ q_track > 0

\* q_frame.has() and q_track.has()
HasData == q_frame > 0 /\ q_track > 0

\* A job whose next run time has come.
Due(j) == scheduler = "running" /\ j \in Jobs(args) /\ now >= next_run[j]

\* Lines 290-300, both queues hold data: one frame and one track list are
\* taken, job "full" is given the frame (-full freq) and the for loop over
\* the tracklets starts.  The sample is one whose threads fit into the
\* bounded threads list.
PollData ==
    /\ pc = "poll"
    /\ HasData
    /\ \E s \in Samples :
        /\ Len(threads) + ThreadDemand(args, s, 1) <= MaxThreads
        /\ tracks' = s
        /\ absent_ticks' =
             IF watch \in CurrentTrackIds(s) THEN 0
             ELSE IF absent_ticks >= 0
                  THEN Cap(absent_ticks + 1, LOST_FRAMES_TILL_REMOVAL)
                  ELSE absent_ticks
        /\ absent_updates' =
             IF watch \in CurrentTrackIds(s) THEN 0 ELSE absent_updates
        /\ sent' = IF watch \in CurrentTrackIds(s) THEN 0 ELSE sent
        /\ pc' = IF Len(s) > 0 THEN "track" ELSE "endtick"
    /\ q_frame' = q_frame - 1
    /\ q_track' = q_track - 1
    /\ i' = 1
    /\ script' = IF scripted THEN Tail(script) ELSE script
    /\ tickno' = IF scripted THEN tickno + 1 ELSE tickno
    /\ job_args' = IF args.full = "freq" THEN "latest" ELSE job_args
    /\ drained' = TRUE
    /\ lf_before' = lost_frames
    /\ UNCHANGED <<args, REC_TIME, disk_free, halting, rec_id_file, rec_id,
                   log_rows, scheduler, executing, now, lost_frames, threads,
                   orphans, exc, scripted, watch, evals, timed, next_run,
                   full_saves, saved_frame>>

\* Line 290, one of the queues is empty: the tick does no persistence work.
PollEmpty ==
    /\ pc = "poll"
    /\ ~HasData
    /\ pc' = "endtick"
    /\ UNCHANGED <<args, REC_TIME, disk_free, halting, rec_id_file, rec_id,
                   log_rows, scheduler, executing, q_frame, q_track, now, tracks,
                   i, lost_frames, threads, orphans, exc, script, scripted,
                   watch, sent, absent_ticks, absent_updates, evals, tickno,
                   drained, lf_before, timed, next_run, job_args, full_saves,
                   saved_frame>>

\* Lines 304-338 for the tracklet at index i: a TRACKED tracklet has its crop
\* and metadata saved and its full-frame / overlay threads started; any other
\* tracklet is skipped.
ProcessTracklet ==
    /\ pc = "track"
    /\ IF tracks[i].status = "TRACKED"
       THEN threads' = StartThreads(threads, ThreadKinds(args, tracks, i))
       ELSE threads' = threads
    /\ pc' = "lifecycle"
    /\ UNCHANGED <<args, REC_TIME, disk_free, halting, rec_id_file, rec_id,
                   log_rows, scheduler, executing, q_frame, q_track, now, tracks,
                   i, lost_frames, orphans, exc, script, scripted, watch, sent,
                   absent_ticks, absent_updates, evals, tickno, drained,
                   lf_before, timed, next_run, job_args, full_saves, saved_frame>>

\* Line 321, save_crop_metadata raises: nothing in the loop catches it, so
\* the try block is left for the finally block.
CropFails ==
    /\ pc = "track"
    /\ tracks[i].status = "TRACKED"
    /\ exc' = "error"
    /\ pc' = "finally"
    /\ UNCHANGED <<args, REC_TIME, disk_free, halting, rec_id_file, rec_id,
                   log_rows, scheduler, executing, q_frame, q_track, now, tracks,
                   i, lost_frames, threads, orphans, script, scripted, watch,
                   sent, absent_ticks, absent_updates, evals, tickno, drained,
                   lf_before, timed, next_run, job_args, full_saves, saved_frame>>

\* Lines 340-352, inside the for loop and so once per tracklet: the counters
\* of lost_frames are updated against the IDs of the tick.
Lifecycle ==
    /\ pc = "lifecycle"
    /\ LET cur == CurrentTrackIds(tracks)
           r == LifecycleUpdate(lost_frames, cur)
       IN  /\ lost_frames' = r.lf
           /\ sent' = IF watch \in r.sent THEN Cap(sent + 1, 2) ELSE sent
           /\ absent_updates' =
                IF watch \in cur THEN 0
                ELSE IF absent_ticks >= 0
                     THEN Cap(absent_updates + 1, LOST_FRAMES_TILL_REMOVAL)
                     ELSE 0
           /\ IF r.raised
              THEN exc' = "error" /\ pc' = "finally" /\ i' = i
              ELSE /\ exc' = exc
                   /\ i' = i + 1
                   /\ pc' = IF i < Len(tracks) THEN "track" ELSE "endtick"
    /\ UNCHANGED <<args, REC_TIME, disk_free, halting, rec_id_file, rec_id,
                   log_rows, scheduler, executing, q_frame, q_track, now, tracks,
                   threads, orphans, script, scripted, watch, absent_ticks,
                   evals, tickno, drained, lf_before, timed, next_run, job_args,
                   full_saves, saved_frame>>

\* Lines 355-361: the free-disk reading is refreshed, finished threads are
\* dropped from the threads list and the loop sleeps CAPTURE_FREQ seconds.
\* The work of the tick took w seconds.  In a timed run a job that is due
\* runs before more time passes.
EndTick ==
    /\ pc = "endtick"
    /\ timed => ~\E j \in {"log", "full"} : Due(j)
    /\ disk_free' \in DiskReadings
    /\ threads' = Stale(Prune(threads).kept)
    /\ orphans' = orphans + Prune(threads).dropped
    /\ \E w \in 0..(IF timed THEN 0 ELSE MaxWork) :
          now' = AfterSleep(now, w)
    /\ tracks' = <<>>
    /\ i' = 0
    /\ drained' = FALSE
    /\ lf_before' = <<>>
    /\ pc' = "while"
    /\ UNCHANGED <<args, REC_TIME, halting, rec_id_file, rec_id, log_rows,
                   scheduler, executing, q_frame, q_track, lost_frames, exc,
                   script, scripted, watch, sent, absent_ticks, absent_updates,
                   evals, tickno, timed, next_run, job_args, full_saves,
                   saved_frame>>

\* Ctrl+C: KeyboardInterrupt is raised in the main thread.  Inside the try
\* block it leads to the finally block; before it, the process ends.
Interrupt ==
    /\ \/ pc \in LoopPcs /\ pc' = "finally"
       \/ pc \in SetupPcs /\ pc' = "crashed"
    /\ exc' = "interrupt"
    /\ UNCHANGED <<args, REC_TIME, disk_free, halting, rec_id_file, rec_id,
                   log_rows, scheduler, executing, q_frame, q_track, now, tracks,
                   i, lost_frames, threads, orphans, script, scripted, watch,
                   sent, absent_ticks, absent_updates, evals, tickno, drained,
                   lf_before, timed, next_run, job_args, full_saves, saved_frame>>

\* The shutdown that line 142 asked for ends the process.
OsKill ==
    /\ halting
    /\ pc \notin Terminal
    /\ pc' = "killed"
    /\ UNCHANGED <<args, REC_TIME, disk_free, halting, rec_id_file, rec_id,
                   log_rows, scheduler, executing, q_frame, q_track, now, tracks,
                   i, lost_frames, threads, orphans, exc, script, scripted,
                   watch, sent, absent_ticks, absent_updates, evals, tickno,
                   drained, lf_before, timed, next_run, job_args, full_saves,
                   saved_frame>>

\* ---------------------------------------------------- threads and scheduler
\* A persistence thread returns from save_full_frame / save_overlay_frame, or
\* dies of an exception raised in it: the k-th thread of the list, or for
\* k = 0 a running thread the list does not hold.
ThreadFinish(k) ==
    /\ pc # "killed"
    /\ IF k = 0
       THEN orphans > 0 /\ orphans' = orphans - 1 /\ threads' = threads
       ELSE /\ k \in DOMAIN threads
            /\ threads[k].running
            /\ threads' = [threads EXCEPT ![k].running = FALSE]
            /\ orphans' = orphans
    /\ UNCHANGED <<pc, args, REC_TIME, disk_free, halting, rec_id_file, rec_id,
                   log_rows, scheduler, executing, q_frame, q_track, now, tracks,
                   i, lost_frames, exc, script, scripted, watch, sent,
                   absent_ticks, absent_updates, evals, tickno, drained,
                   lf_before, timed, next_run, job_args, full_saves, saved_frame>>

\* The scheduler starts an invocation of job j (lines 254-263) with the
\* arguments the job has at that moment.  Unless the run is timed, its timer
\* runs on the scheduler's own clock, which the model does not relate to now.
JobFire(j) ==
    /\ scheduler = "running"
    /\ j \in Jobs(args)
    /\ j \notin executing
    /\ pc \notin Terminal
    /\ timed => Due(j)
    /\ executing' = executing \cup {j}
    /\ next_run' = IF timed THEN [next_run EXCEPT ![j] = @ + Interval(j)]
                  ELSE next_run
    /\ IF timed /\ j = "full"
       THEN full_saves' = Cap(full_saves + 1, 2) /\ saved_frame' = job_args
       ELSE full_saves' = full_saves /\ saved_frame' = saved_frame
    /\ UNCHANGED <<pc, args, REC_TIME, disk_free, halting, rec_id_file, rec_id,
                   log_rows, scheduler, q_frame, q_track, now, tracks, i,
                   lost_frames, threads, orphans, exc, script, scripted, watch,
                   sent, absent_ticks, absent_updates, evals, tickno, drained,
                   lf_before, timed, job_args>>

\* The invocation of job j returns.
JobFinish(j) ==
    /\ j \in executing
    /\ pc # "killed"
    /\ executing' = executing \ {j}
    /\ UNCHANGED <<pc, args, REC_TIME, disk_free, halting, rec_id_file, rec_id,
                   log_rows, scheduler, q_frame, q_track, now, tracks, i,
                   lost_frames, threads, orphans, exc, script, scripted, watch,
                   sent, absent_ticks, absent_updates, evals, tickno, drained,
                   lf_before, timed, next_run, job_args, full_saves, saved_frame>>

\* ---------------------------------------------------------- finally block
\* Lines 376-377: scheduler.shutdown() stops the scheduler, which starts no
\* further invocation.
ShutdownScheduler ==
    /\ pc = "finally"
    /\ IF scheduler = "running"
       THEN scheduler' = "stopped" /\ pc' = "shutdown_wait"
       ELSE scheduler' = scheduler /\ pc' = "join"
    /\ UNCHANGED <<args, REC_TIME, disk_free, halting, rec_id_file, rec_id,
                   log_rows, executing, q_frame, q_track, now, tracks, i,
                   lost_frames, threads, orphans, exc, script, scripted, watch,
                   sent, absent_ticks, absent_updates, evals, tickno, drained,
                   lf_before, timed, next_run, job_args, full_saves, saved_frame>>

\* Line 377: scheduler.shutdown() returns once the executing jobs are finished.
ShutdownReturns ==
    /\ pc = "shutdown_wait"
    /\ SchedulerIdle
    /\ pc' = "join"
    /\ UNCHANGED <<args, REC_TIME, disk_free, halting, rec_id_file, rec_id,
                   log_rows, scheduler, executing, q_frame, q_track, now, tracks,
                   i, lost_frames, threads, orphans, exc, script, scripted,
                   watch, sent, absent_ticks, absent_updates, evals, tickno,
                   drained, lf_before, timed, next_run, job_args, full_saves,
                   saved_frame>>

\* Lines 380-381: the join loop returns once thread.join() has returned for
\* every thread of the list.
JoinThreads ==
    /\ pc = "join"
    /\ \A k \in DOMAIN threads : JoinReturns(threads[k])
    /\ pc' = "record_log"
    /\ UNCHANGED <<args, REC_TIME, disk_free, halting, rec_id_file, rec_id,
                   log_rows, scheduler, executing, q_frame, q_track, now, tracks,
                   i, lost_frames, threads, orphans, exc, script, scripted,
                   watch, sent, absent_ticks, absent_updates, evals, tickno,
                   drained, lf_before, timed, next_run, job_args, full_saves,
                   saved_frame>>

\* Lines 384-385: record_log writes the session summary; an exception that
\* left the try block then ends the process.
RecordLog ==
    /\ pc = "record_log"
    /\ log_rows' = log_rows + 1
    /\ pc' = IF exc = "none" THEN "done" ELSE "crashed"
    /\ UNCHANGED <<args, REC_TIME, disk_free, halting, rec_id_file, rec_id,
                   scheduler, executing, q_frame, q_track, now, tracks, i,
                   lost_frames, threads, orphans, exc, script, scripted, watch,
                   sent, absent_ticks, absent_updates, evals, tickno, drained,
                   lf_before, timed, next_run, job_args, full_saves, saved_frame>>

Next ==
    \/ StartupLowDisk
    \/ StartupDiskOk
    \/ OpenSession
    \/ LoadConfig
    \/ DeviceFails
    \/ ConnectDevice
    \/ SourceFrame
    \/ SourceTrack
    \/ WhileCond
    \/ PollData
    \/ PollEmpty
    \/ ProcessTracklet
    \/ CropFails
    \/ Lifecycle
    \/ EndTick
    \/ Interrupt
    \/ OsKill
    \/ \E k \in 0..MaxThreads : ThreadFinish(k)
    \/ \E j \in {"log", "full"} : JobFire(j)
    \/ \E j \in {"log", "full"} : JobFinish(j)
    \/ ShutdownScheduler
    \/ ShutdownReturns
    \/ JoinThreads
    \/ RecordLog

Spec == Init /\ [][Next]_vars

\* The same program with the history of one tracking ID recorded.
SpecTracks == InitTracks /\ [][Next]_vars

\* The same program fed the scenario.
SpecScenario == InitScenario /\ [][Next]_vars

\* The same program with the scheduler's timers on the clock of now.
SpecFreq == InitFreq /\ [][Next]_vars

\* The same program started with counters in lost_frames.
SpecCounters == InitCounters /\ [][Next]_vars

\* The main thread keeps running, and every persistence thread and every
\* invocation of a scheduled job comes to an end.  Nothing is assumed of the
\* source, of Ctrl+C, of failing saves or of the scheduler's timers.
Fairness ==
    /\ WF_vars(WhileCond)
    /\ WF_vars(PollData)
    /\ WF_vars(PollEmpty)
    /\ WF_vars(ProcessTracklet)
    /\ WF_vars(Lifecycle)
    /\ WF_vars(EndTick)
    /\ WF_vars(ShutdownScheduler)
    /\ WF_vars(ShutdownReturns)
    /\ WF_vars(JoinThreads)
    /\ \A k \in 0..MaxThreads : WF_vars(ThreadFinish(k))
    /\ \A j \in {"log", "full"} : WF_vars(JobFinish(j))

SpecLive == InitLive /\ [][Next]_vars /\ Fairness

\* ============================================================== properties
\* ---------------------------------------------------------------------- C1
\* C1: a track ID reported in an earlier tick and then absent from the track
\* lists of LOST_FRAMES_TILL_REMOVAL consecutive lifecycle updates has been
\* finalized exactly once for that run of absences (one send_track_data call)
\* and is no key of lost_frames.
C1_FinalizedAfterThreshold ==
    (absent_ticks >= 0 /\ absent_updates >= LOST_FRAMES_TILL_REMOVAL)
        => (sent = 1 /\ watch \notin Keys(lost_frames))

\* ---------------------------------------------------------------------- C2
\* C2: when the for loop of a tick has finished, every ID of the tick's track
\* list is a key of lost_frames with counter 0, and a first appearance has
\* made no send_track_data call.
C2_ReportedIdIsKey ==
    pc = "endtick" =>
        /\ \A id \in CurrentTrackIds(tracks) :
              id \in Keys(lost_frames) /\ Counter(lost_frames, id) = 0
        /\ watch \in CurrentTrackIds(tracks) => sent = 0

\* ---------------------------------------------------------------------- C3
\* C3: send_track_data has been called for an ID only if the ID was absent
\* from the track lists of the last LOST_FRAMES_TILL_REMOVAL drained ticks;
\* an ID with fewer consecutive absences is not finalized.
C3_SendOnlyAfterThreshold ==
    sent > 0 => absent_ticks >= LOST_FRAMES_TILL_REMOVAL

\* A reported ID has been absent for one or two ticks, the lifecycle update
\* has run without it, and it has not been finalized.
C3_Witness ==
    /\ pc = "endtick"
    /\ absent_ticks \in 1..(LOST_FRAMES_TILL_REMOVAL - 1)
    /\ absent_updates >= 1
    /\ sent = 0

\* ---------------------------------------------------------------------- C4
\* C4: in the scenario {1,2}, {1}, {1}, {1}, {2} track 2 is not finalized
\* before tick 4, is finalized once tick 4 has run, and after tick 5 is a
\* fresh track: a key of lost_frames with counter 0 and no finalize call.
C4_ScenarioFinalizesAtTick4 ==
    scripted =>
        /\ tickno < 4 => sent = 0
        /\ (tickno = 4 /\ pc = "endtick") => sent = 1
        /\ (tickno = 5 /\ pc = "endtick") =>
              /\ sent = 0
              /\ watch \in Keys(lost_frames)
              /\ Counter(lost_frames, watch) = 0

C7_SessionClosedOnce ==
    (pc \in {"done", "crashed"} /\ rec_id > 0) => log_rows = 1

\* ---------------------------------------------------------------------- C8
\* C8: after a startup reading below MIN_DISKSPACE the process does nothing
\* more: no session, no scheduler, no evaluation of the loop condition, no
\* thread, no scheduled job, no record_log.
C8_LowDiskExitsAtCheck ==
    halting =>
        /\ rec_id = 0
        /\ scheduler = "unset"
        /\ evals = 0
        /\ threads = <<>>
        /\ executing = {}
        /\ log_rows = 0

\* ---------------------------------------------------------------------- C9
\* C9: the loop ends by its condition only when the recording time is over or
\* the free-disk reading is below MIN_DISKSPACE; a reading equal to
\* MIN_DISKSPACE keeps it running.
C9_StopsOnlyBelowFloor ==
    (pc = "finally" /\ exc = "none") =>
        (now >= REC_TIME \/ disk_free < MIN_DISKSPACE)

\* --------------------------------------------------------------------- C10
CeilDiv(a, b) == (a + b - 1) \div b

\* The loop ended by its condition and the disk floor was not the reason.
EndedByTime == pc = "finally" /\ exc = "none" /\ disk_free > MIN_DISKSPACE

\* C10 as stated: the number of stop-condition evaluations is at least
\* floor(D/T) and at most ceil(D/T) + 1.
C10_EvalsFloorToCeil ==
    EndedByTime =>
        /\ evals >= REC_TIME \div CAPTURE_FREQ
        /\ evals <= CeilDiv(REC_TIME, CAPTURE_FREQ) + 1

\* C10 amended: the number of stop-condition evaluations is at most
\* ceil(D/T) + 1 and at least ceil(D/(T+W)) + 1, W the longest time the work
\* of a tick takes.
C10_EvalsBounds ==
    EndedByTime =>
        /\ evals >= CeilDiv(REC_TIME, CAPTURE_FREQ + MaxWork) + 1
        /\ evals <= CeilDiv(REC_TIME, CAPTURE_FREQ) + 1

\* The recording time ran out after fewer than floor(D/T) evaluations.
C10_Witness == EndedByTime /\ evals < REC_TIME \div CAPTURE_FREQ

\* --------------------------------------------------------------------- C11
\* C11: with -full freq, FULL_FREQ = 60 s and ticks of 1 s, exactly one
\* invocation of job "full" has started when ScenarioTicks ticks are over, and
\* every invocation gets the frame of the most recent drained sample, never
\* the None the job was added with.
C11_OneFreshSave ==
    timed =>
        /\ (pc = "while" /\ evals = ScenarioTicks) => full_saves = 1
        /\ full_saves > 0 => saved_frame = "latest"

\* --------------------------------------------------------------------- C12
\* C12: a save that raises abandons only its own job: when save_crop_metadata
\* raises, the main thread stays in the loop, and when a persistence thread
\* ends, by returning or by an exception, the main thread is where it was.
C12_SaveFailureIsolated ==
    [][/\ CropFails => pc' \in LoopPcs
       /\ (\E k \in 0..MaxThreads : ThreadFinish(k)) => pc' = pc]_vars

\* --------------------------------------------------------------------- C13
\* C13: when setup has failed (an exception before the scheduler exists), the
\* recording ID has not been assigned and last_rec_id.txt holds what it held
\* at the start.
C13_SetupFailureBeforeSession ==
    (pc = "crashed" /\ exc = "error" /\ scheduler = "unset") =>
        (rec_id = 0 /\ rec_id_file \in LastRecIds)

\* --------------------------------------------------------------------- C14
\* Threads of the given kind started in the tick in progress.
FreshThreads(kind) ==
    Cardinality({k \in DOMAIN threads :
                    threads[k].fresh /\ threads[k].kind = kind})

\* TRACKED tracklets among the first n of the tick.
TrackedUpTo(n) ==
    Cardinality({k \in 1..n : tracks[k].status = "TRACKED"})

\* C14 as stated: a tick starts at most one full-frame thread and at most one
\* overlay thread, and none for a tracklet that is not the last of the list.
C14_ThreadsOnlyForLast ==
    /\ FreshThreads("full") <= 1
    /\ FreshThreads("overlay") <= 1
    /\ (pc = "lifecycle" /\ i < Len(tracks)) =>
          FreshThreads("full") + FreshThreads("overlay") = 0

\* C14 amended: when tracklet i has been processed, the tick has started one
\* full-frame thread exactly if -full det is set and tracklet i is the last
\* of the list and TRACKED, and one overlay thread per TRACKED tracklet so
\* far if -overlay is set.
C14_FullForLastOverlayForEach ==
    pc = "lifecycle" =>
        /\ FreshThreads("full") =
              IF args.full = "det" /\ i = Len(tracks)
                 /\ tracks[i].status = "TRACKED"
              THEN 1 ELSE 0
        /\ FreshThreads("overlay") =
              IF args.overlay THEN TrackedUpTo(i) ELSE 0

\* A tick with two TRACKED tracklets has started two overlay threads and one
\* full-frame thread.
C14_Witness ==
    /\ pc = "lifecycle"
    /\ i = 2
    /\ FreshThreads("overlay") = 2
    /\ FreshThreads("full") = 1

\* --------------------------------------------------------------------- C15
\* C15: with -full det, a tick whose for loop has finished and that saved a
\* crop (some tracklet is TRACKED) has started a full-frame thread.
C15_FullFrameWithCrops ==
    (pc = "endtick" /\ args.full = "det"
     /\ \E k \in DOMAIN tracks : tracks[k].status = "TRACKED")
        => FreshThreads("full") >= 1

\* --------------------------------------------------------------------- C16
\* C16: no two running threads started in the same tick hold the same frame
\* buffer while one of them draws on it.
C16_OwnSnapshot ==
    \A a, b \in DOMAIN threads :
        (/\ a # b
         /\ threads[a].running /\ threads[b].running
         /\ threads[a].fresh /\ threads[b].fresh
         /\ Buffer(threads[a]) = Buffer(threads[b]))
            => ~(Draws(threads[a]) \/ Draws(threads[b]))

\* --------------------------------------------------------------------- C17
\* C17: the lifecycle update runs only when no TRACKED tracklet of the tick
\* is still waiting for its crop save.
C17_LifecycleAfterAllCrops ==
    [][Lifecycle =>
          \A k \in DOMAIN tracks : k > i => tracks[k].status # "TRACKED"]_vars

C19_EmptyTickIsNoOp ==
    [][/\ (/\ pc = "poll"
           /\ (q_frame = 0 \/ q_track = 0)
           /\ pc' \notin {pc, "finally", "killed"})
          => (/\ pc' = "endtick"
              /\ ~drained'
              /\ UNCHANGED <<q_frame, q_track, lost_frames, threads, sent,
                             tracks>>)
       /\ (pc = "endtick" /\ ~drained /\ pc' \notin {pc, "finally", "killed"})
          => (/\ pc' = "while"
              /\ now' >= now + CAPTURE_FREQ
              /\ disk_free' \in DiskReadings
              /\ Len(threads') <= Len(threads)
              /\ UNCHANGED <<q_frame, q_track, lost_frames, sent, evals>>)]_vars

\* The second tick found a track list waiting but no frame, and is at its end
\* without having drained anything.
C19_Witness ==
    /\ pc = "endtick"
    /\ ~drained
    /\ evals >= 2
    /\ q_track > 0
    /\ q_frame = 0

\* --------------------------------------------------------------------- C20
\* C20: a process that is in the main loop eventually is at the call of
\* record_log, whatever the source delivers, unless the shutdown asked for at
\* line 142 ends the process first.
C20_ReachesRecordLog ==
    (pc \in LoopPcs) ~> (pc = "record_log" \/ pc = "killed")

\* The recording time ran out and record_log is reached although no sample
\* was ever drained: job "full" still has the frame None.
C20_Witness ==
    /\ pc = "record_log"
    /\ exc = "none"
    /\ now >= REC_TIME
    /\ args.full = "freq"
    /\ job_args = "None"
    /\ q_frame = 0
    /\ q_track = 0

====
